---- MODULE Spec2Model ----
(***************************************************************************)
(* Model of the PACSAT telemetry sampler (src/src/telem_main.c): the main  *)
(* loop that polls the clock, appends the telemetry frame to the WOD file, *)
(* rolls the file when it is too large, samples and broadcasts the frame,  *)
(* and exits when too many file errors have been counted or a termination  *)
(* signal arrives.                                                         *)
(*                                                                         *)
(* log_append, log_add_to_directory and send_raw_packet are declared in    *)
(* headers outside the repository (pacsat_log.h, agw_tnc.h): they are the  *)
(* environment, modelled from the specification's contracts with their     *)
(* outcomes chosen nondeterministically.                                   *)
(***************************************************************************)
EXTENDS Integers, Sequences, FiniteSets, TLC

(* ------------------------------ bounds -------------------------------- *)

\* The clock is followed up to this reading of time(0).
MaxTime == 12
\* The last clock reading of the nominal scenario (t = 0 .. 600 s).
ScenarioEnd == 600
\* Seconds time(0) advances between two polls of the loop.
ClockSteps == {0, 1, 2}

\* Readings of time(0) when the loop is entered (line 147).
StartTimes == {0, 3}
\* Values of the two period macros the model is checked for (the header sets
\* 10 and 60; zero and negative values mean "disabled").
SamplePeriods == {-1, 0, 2, 3}
StorePeriods == {-1, 0, 1, 2}
\* Number of whole records the WOD file holds when the process starts (the
\* file outlives the process): empty, above 10 KB, and one record below 11 KB.
InitialRecords == {0, 321, 351}
\* The value log_append returns when it fails: the function is not part of the
\* repository, so both conventions for an error are followed (one per run).
\* Readings of time(0) in tlm_send_time: every byte of the value takes its
\* extremes and a value in between (all readings below 2^31).
BeaconTimes ==
    {a + 256 * b + 65536 * c + 16777216 * d :
        a \in {0, 1, 255}, b \in {0, 1, 255}, c \in {0, 1, 255}, d \in {0, 101, 127}}
ErrorReturns == {-1, 0}
\* Results of send_raw_packet (EXIT_SUCCESS, EXIT_FAILURE).
SendResults == {0, 1}
\* How log_append fails in a run: the file cannot be opened (nothing is
\* written), or the write is short (disk full).
AppendFaults == {"open_fail", "short_write"}

(* ------------------------- program constants -------------------------- *)

PERIOD_TO_SAMPLE_TELEM_IN_SECONDS == 10
PERIOD_TO_STORE_WOD_IN_SECONDS == 60
MAX_WOD_FILE_SIZE_IN_KB == 10
MAX_NUMBER_FILE_IO_ERRORS == 5
PID_NO_PROTOCOL == 240
BROADCAST_CALLSIGN == "AMSAT-11"
TIME_CALL == "TIME-1"
TELEM_TYPE_1_CALL == "TLMP1"
\* sizeof(g_sensor_telemetry): the frame size of the specification's scenario.
FrameSize == 32
\* The divisor of the roll check (line 170) and one 16-bit digit of a word.
BytesPerKB == 1024
TwoTo16 == 65536

VARIABLES
    samplePeriod,     \* PERIOD_TO_SAMPLE_TELEM_IN_SECONDS
    storePeriod,      \* PERIOD_TO_STORE_WOD_IN_SECONDS
    appendError,      \* the value log_append returns on failure
    appendFault,      \* the way log_append fails, when it does
    g_verbose,        \* set by -v / --verbose (lines 98-100)
    loopStart,        \* history: the reading of time(0) at line 147
    now,              \* main's local: the last reading of time(0)
    last_time_checked_wod,
    last_time_checked_period_to_sample_telem,
    g_num_of_file_io_errors,
    g_sensor_telemetry,
    wodFile,          \* the working file <dataDir>/wod
    artifacts,        \* the completed files rotation produced, oldest first
    pc,               \* where main is: "poll", "append", "roll", "sample", "send",
                      \* "govern", "exit"
    running,          \* FALSE once exit() has been called
    exitCause,        \* "none", "governor", "signal"
    lastStore,        \* history: the last store attempt that returned
    lastPacket,       \* history: the last packet handed to send_raw_packet
    storeAttempts,    \* history: calls of log_append
    failedAppends,    \* history: calls of log_append that failed
    sampleCount,      \* history: sample events
    prevSampleAt,     \* history: clock readings of the last two sample events
    prevStoreAt,      \* history: clock readings of the last two store attempts
    failedRolls,      \* history: calls of log_add_to_directory that failed
    errorLines,       \* history: "ERROR" lines printed (lines 162 and 191)
    send_time_rc      \* what tlm_send_time returned, -1 before it has

\* What the run is started with, and the histories the loop's later steps
\* leave alone.
config == <<samplePeriod, storePeriod, appendError, appendFault, g_verbose, loopStart>>

vars == <<samplePeriod, storePeriod, appendError, appendFault, g_verbose,
          loopStart, failedRolls, errorLines, send_time_rc,
          now, last_time_checked_wod,
          last_time_checked_period_to_sample_telem, g_num_of_file_io_errors,
          g_sensor_telemetry, wodFile, artifacts, pc, running, exitCause,
          lastStore, lastPacket, storeAttempts, failedAppends, sampleCount,
          prevSampleAt, prevStoreAt>>

(* ------------------------------ C values ------------------------------ *)

\* signed / positive, as C divides: the quotient is truncated toward zero.
CDiv(a, b) == IF a >= 0 THEN a \div b ELSE -((-a) \div b)

\* (long) a < (size_t) b, as C compares them: a is converted to unsigned long,
\* so a negative a becomes a + 2^64 >= 2^63, which is above every b the model has.
UnsignedLess(a, b) == IF a < 0 THEN FALSE ELSE a < b

\* (uint32_t) x for a time_t x >= 0: the low two 16-bit digits of x.
Uint32(x) == (x % TwoTo16) + TwoTo16 * ((x \div TwoTo16) % TwoTo16)

(* ------------------------- the telemetry frame ------------------------ *)

\* g_sensor_telemetry before the first sample: a zero-initialised global.
ZeroFrame ==
    [timestamp |-> 0, SHTC3_temp |-> 0, SHTC3_humidity |-> 0,
     TempHumidityValid |-> 0, LPS22_pressure |-> 0, LPS22_temp |-> 0,
     PressureValid |-> 0]

\* A read_sensors that fills the sensor fields and leaves the timestamp.
ReadSensorsUnstamped(t) ==
    [timestamp |-> 0, SHTC3_temp |-> 11, SHTC3_humidity |-> 55,
     TempHumidityValid |-> 1, LPS22_pressure |-> 66, LPS22_temp |-> 22,
     PressureValid |-> 1]

\* A read_sensors that stamps the frame one second late.
ReadSensorsStampedLate(t) ==
    [timestamp |-> Uint32(t + 1), SHTC3_temp |-> 11, SHTC3_humidity |-> 55,
     TempHumidityValid |-> 1, LPS22_pressure |-> 66, LPS22_temp |-> 22,
     PressureValid |-> 1]

\* read_sensors(now): the frame it leaves in g_sensor_telemetry.
read_sensors(t) ==
    [timestamp |-> Uint32(t), SHTC3_temp |-> 11, SHTC3_humidity |-> 55,
     TempHumidityValid |-> 1, LPS22_pressure |-> 66, LPS22_temp |-> 22,
     PressureValid |-> 1]

(* ----------------------- the environment: files ----------------------- *)

\* A file: `old` bytes of whole records written before the process started,
\* then the chunks written since, one for each append that succeeded.
EmptyFile == [old |-> 0, chunks |-> <<>>]

RECURSIVE SumBytes(_)
SumBytes(cs) == IF cs = <<>> THEN 0 ELSE Head(cs).bytes + SumBytes(Tail(cs))

FileSize(f) == f.old + SumBytes(f.chunks)

\* log_append(path, frame, n): the file it leaves. A successful call adds the
\* n bytes handed over; a failed one (cannot open, short write) leaves no
\* part of a record behind.
LogAppendFile(f, frame, n, outcome) ==
    IF outcome = "ok"
    THEN [f EXCEPT !.chunks = Append(@, [bytes |-> n, frame |-> frame])]
    ELSE f

\* log_append's result: the new total size of the file, or an error value.
LogAppendReturn(f, frame, n, outcome, err) ==
    IF outcome = "ok" THEN FileSize(LogAppendFile(f, frame, n, outcome)) ELSE err

\* log_add_to_directory(path): the working file and the completed files it
\* leaves; a failed call leaves both as they were.
LogAddToDirectory(f, done, ok) ==
    IF ok THEN [file |-> EmptyFile, done |-> Append(done, f)]
    ELSE [file |-> f, done |-> done]

\* send_raw_packet(from, to, pid, bytes, len): the packet as handed over.
Packet(from, to, pid, payload, rc) ==
    [from |-> from, to |-> to, pid |-> pid, payload |-> payload, rc |-> rc]

NoPacket == Packet("", "", 0, ZeroFrame, 0)

\* (x >> 8*i) & 0xff, for x >= 0.
ByteOf(x, i) == (x \div (2 ^ (8 * i))) % 256

\* The four bytes with the two low ones exchanged.
StatusLowBytesSwapped(t) ==
    <<ByteOf(t, 1), ByteOf(t, 0), ByteOf(t, 2), ByteOf(t, 3)>>

\* Lines 258-261 of tlm_send_time: status[0..3].
Status(t) == <<ByteOf(t, 0), ByteOf(t, 1), ByteOf(t, 2), ByteOf(t, 3)>>

NoStore ==
    [outcome |-> "none", ret |-> 0, sizeBefore |-> 0, counted |-> FALSE,
     rolled |-> FALSE, rollOk |-> FALSE, at |-> 0, frame |-> ZeroFrame]

(* ------------------------ decisions of the loop ----------------------- *)

\* A due check that forgets the period.
IsDueIgnoringPeriod(t, last, period) == (t - last) > 0

\* Lines 156 and 178: (now - last) > PERIOD.
IsDue(t, last, period) == (t - last) > period

\* A store check that stands on its own.
WodEnabledByStorePeriodAlone(sampleP, storeP) == storeP > 0

\* Lines 153 and 155: the store check is nested in the sample check.
WodEnabled(sampleP, storeP) == sampleP > 0 /\ storeP > 0

\* Line 178: the sample check, under line 153.
SampleEnabled(sampleP) == sampleP > 0

\* A length taken from the pointer to the frame, not from the frame.
AppendLengthOfPointer == FrameSize \div 4

\* Line 159: the length handed to log_append, sizeof(g_sensor_telemetry).
AppendLength == FrameSize

\* Line 160: size < sizeof(g_sensor_telemetry), long against size_t.
AppendFailed(size) == UnsignedLess(size, FrameSize)

\* An error count that a successful append clears.
ErrorsClearedOnSuccess(errors, size) ==
    IF AppendFailed(size) THEN errors + 1 ELSE 0

\* Lines 160-164: the error count after the append returned `size`.
ErrorsAfterAppend(errors, size) ==
    IF AppendFailed(size) THEN errors + 1 ELSE errors

\* A roll check that fires at the threshold itself.
ShouldRollAtThreshold(size) == CDiv(size, BytesPerKB) >= MAX_WOD_FILE_SIZE_IN_KB

\* A roll check that compares bytes and misses the first byte of the next KB.
ShouldRollStrictlyAbove(size) == size > (MAX_WOD_FILE_SIZE_IN_KB + 1) * BytesPerKB

\* A roll check that fires one KB late.
ShouldRollOneKBLate(size) ==
    CDiv(size, BytesPerKB) > MAX_WOD_FILE_SIZE_IN_KB + 1

\* Line 170: size/1024 > MAX_WOD_FILE_SIZE_IN_KB.
ShouldRoll(size) == CDiv(size, BytesPerKB) > MAX_WOD_FILE_SIZE_IN_KB

\* A send whose failure is counted as a file error.
ErrorsCountingSendFailure(errors, rc) == errors + rc

\* Lines 181-185: the result of tlm_send_sensor_telem is dropped.
ErrorsAfterSend(errors, rc) == errors

\* Lines 161-162: the failure is printed when verbose is set.
ErrorLinesAfterAppend(lines, size, verbose) ==
    IF AppendFailed(size) /\ verbose THEN lines + 1 ELSE lines

\* A store stamp that is left for a successful append to set.
WodStampNever(last, t, due) == last

\* Line 157: the store is stamped before log_append is called.
WodStamp(last, t, due) == IF due THEN t ELSE last

\* A sample stamp set in every iteration.
SampleStampAlways(last, t, due) == t

\* Line 179: the sample is stamped when it is due.
SampleStamp(last, t, due) == IF due THEN t ELSE last

\* Line 190.
ShouldShutDown(errors) == errors > MAX_NUMBER_FILE_IO_ERRORS

\* The last two entries of a history of clock readings.
Remember(hist, t) == IF hist = <<>> THEN <<t>> ELSE <<hist[Len(hist)], t>>

(* ------------------------------- states ------------------------------- *)

\* Lines 69-72 and 147-148: the globals, and main's locals on entry to the loop.
Init ==
    /\ samplePeriod \in SamplePeriods
    /\ storePeriod \in StorePeriods
    /\ appendError \in ErrorReturns
    /\ appendFault \in AppendFaults
    /\ g_verbose \in BOOLEAN
    /\ now \in StartTimes
    /\ loopStart = now
    /\ failedRolls = 0
    /\ errorLines = 0
    /\ send_time_rc = -1
    /\ last_time_checked_wod = now
    /\ last_time_checked_period_to_sample_telem = 0
    /\ g_num_of_file_io_errors = 0
    /\ g_sensor_telemetry = ZeroFrame
    /\ \E n \in InitialRecords : wodFile = [old |-> n * FrameSize, chunks |-> <<>>]
    /\ artifacts = <<>>
    /\ pc = "poll"
    /\ running = TRUE
    /\ exitCause = "none"
    /\ lastStore = NoStore
    /\ lastPacket = NoPacket
    /\ storeAttempts = 0
    /\ failedAppends = 0
    /\ sampleCount = 0
    /\ prevSampleAt = <<>>
    /\ prevStoreAt = <<>>

\* Lines 151-157: read the clock; when the store is due, stamp it and call
\* log_append (which is then in flight), else go on to the sample check. The
\* clock is followed up to the reading `horizon`.
PollUntil(d, horizon) ==
    /\ running /\ pc = "poll"
    /\ now + d <= horizon
    /\ now' = now + d
    /\ last_time_checked_wod' =
           WodStamp(last_time_checked_wod, now',
                    WodEnabled(samplePeriod, storePeriod)
                    /\ IsDue(now', last_time_checked_wod, storePeriod))
    /\ IF WodEnabled(samplePeriod, storePeriod)
          /\ IsDue(now', last_time_checked_wod, storePeriod)
       THEN /\ storeAttempts' = storeAttempts + 1
            /\ prevStoreAt' = Remember(prevStoreAt, now')
            /\ pc' = "append"
       ELSE /\ UNCHANGED <<storeAttempts, prevStoreAt>>
            /\ pc' = "sample"
    /\ UNCHANGED <<config, send_time_rc, failedRolls, errorLines,
                   last_time_checked_period_to_sample_telem,
                   g_num_of_file_io_errors, g_sensor_telemetry, wodFile,
                   artifacts, running, exitCause, lastStore, lastPacket,
                   failedAppends, sampleCount, prevSampleAt>>

Poll(d) == PollUntil(d, MaxTime)

\* Lines 159-170: log_append returns; the error is counted; when the size
\* calls for it log_add_to_directory is called (and is then in flight).
AppendReturn(ok) ==
    /\ running /\ pc = "append"
    /\ LET outcome == IF ok THEN "ok" ELSE appendFault
           size == LogAppendReturn(wodFile, g_sensor_telemetry, AppendLength,
                                   outcome, appendError)
       IN /\ g_num_of_file_io_errors' = ErrorsAfterAppend(g_num_of_file_io_errors, size)
          /\ wodFile' = LogAppendFile(wodFile, g_sensor_telemetry, AppendLength,
                                      outcome)
          /\ failedAppends' = IF outcome = "ok" THEN failedAppends ELSE failedAppends + 1
          /\ errorLines' = ErrorLinesAfterAppend(errorLines, size, g_verbose)
          /\ lastStore' = [outcome |-> outcome, ret |-> size,
                           sizeBefore |-> FileSize(wodFile),
                           counted |-> AppendFailed(size),
                           rolled |-> ShouldRoll(size), rollOk |-> FALSE,
                           at |-> now, frame |-> g_sensor_telemetry]
          /\ pc' = IF ShouldRoll(size) THEN "roll" ELSE "sample"
    /\ UNCHANGED <<config, send_time_rc, now, last_time_checked_wod,
                   last_time_checked_period_to_sample_telem, g_sensor_telemetry,
                   artifacts, failedRolls, running, exitCause, lastPacket,
                   storeAttempts, sampleCount, prevSampleAt, prevStoreAt>>

\* Lines 172-173: log_add_to_directory returns; its result is not looked at.
RollReturn(rollOk) ==
    /\ running /\ pc = "roll"
    /\ LET after == LogAddToDirectory(wodFile, artifacts, rollOk)
       IN /\ wodFile' = after.file
          /\ artifacts' = after.done
    /\ failedRolls' = IF rollOk THEN failedRolls ELSE failedRolls + 1
    /\ lastStore' = [lastStore EXCEPT !.rollOk = rollOk]
    /\ pc' = "sample"
    /\ UNCHANGED <<config, send_time_rc, errorLines, now, last_time_checked_wod,
                   last_time_checked_period_to_sample_telem,
                   g_num_of_file_io_errors, g_sensor_telemetry, running,
                   exitCause, lastPacket, storeAttempts, failedAppends,
                   sampleCount, prevSampleAt, prevStoreAt>>

\* Lines 178-185: when the sample is due, stamp it, read the sensors and call
\* tlm_send_sensor_telem (send_raw_packet is then in flight).
Sample ==
    /\ running /\ pc = "sample"
    /\ IF SampleEnabled(samplePeriod)
          /\ IsDue(now, last_time_checked_period_to_sample_telem, samplePeriod)
       THEN /\ g_sensor_telemetry' = read_sensors(now)
            /\ sampleCount' = sampleCount + 1
            /\ prevSampleAt' = Remember(prevSampleAt, now)
            /\ pc' = "send"
       ELSE /\ UNCHANGED <<g_sensor_telemetry, sampleCount, prevSampleAt>>
            /\ pc' = "govern"
    /\ last_time_checked_period_to_sample_telem' =
           SampleStamp(last_time_checked_period_to_sample_telem, now,
                       SampleEnabled(samplePeriod)
                       /\ IsDue(now, last_time_checked_period_to_sample_telem,
                                samplePeriod))
    /\ UNCHANGED <<config, send_time_rc, failedRolls, errorLines, now,
                   last_time_checked_wod, g_num_of_file_io_errors, wodFile,
                   artifacts, running, exitCause, lastStore, lastPacket,
                   storeAttempts, failedAppends, prevStoreAt>>

\* Lines 185-186 and 267-274: send_raw_packet returns rc, which
\* tlm_send_sensor_telem hands back and main drops.
SendReturn(rc) ==
    /\ running /\ pc = "send"
    /\ lastPacket' = Packet(BROADCAST_CALLSIGN, TELEM_TYPE_1_CALL,
                            PID_NO_PROTOCOL, g_sensor_telemetry, rc)
    /\ g_num_of_file_io_errors' = ErrorsAfterSend(g_num_of_file_io_errors, rc)
    /\ pc' = "govern"
    /\ UNCHANGED <<config, send_time_rc, failedRolls, errorLines, now,
                   last_time_checked_wod,
                   last_time_checked_period_to_sample_telem,
                   g_sensor_telemetry, wodFile, artifacts, running, exitCause,
                   lastStore, storeAttempts, failedAppends, sampleCount,
                   prevSampleAt, prevStoreAt>>

\* Lines 190-195: with too many errors the ERROR line is printed and
\* signal_exit(0) is called (and is then in flight, in its usleep), else the
\* loop goes round.
Govern ==
    /\ running /\ pc = "govern"
    /\ IF ShouldShutDown(g_num_of_file_io_errors)
       THEN /\ errorLines' = errorLines + 1
            /\ pc' = "exit"
       ELSE /\ pc' = "poll"
            /\ UNCHANGED errorLines
    /\ UNCHANGED <<running, exitCause>>
    /\ UNCHANGED <<config, send_time_rc, failedRolls, now, last_time_checked_wod,
                   last_time_checked_period_to_sample_telem,
                   g_num_of_file_io_errors, g_sensor_telemetry, wodFile,
                   artifacts, lastStore, lastPacket, storeAttempts,
                   failedAppends, sampleCount, prevSampleAt, prevStoreAt>>

\* Lines 216-218: signal_exit(0), called by the governor, is through its
\* usleep and calls exit(0).
GovernorExit ==
    /\ running /\ pc = "exit"
    /\ running' = FALSE
    /\ exitCause' = "governor"
    /\ UNCHANGED <<config, send_time_rc, failedRolls, errorLines, now,
                   last_time_checked_wod,
                   last_time_checked_period_to_sample_telem,
                   g_num_of_file_io_errors, g_sensor_telemetry, wodFile,
                   artifacts, pc, lastStore, lastPacket, storeAttempts,
                   failedAppends, sampleCount, prevSampleAt, prevStoreAt>>

\* Lines 76-79 and 212-219: SIGQUIT, SIGTERM or SIGINT runs signal_exit, which
\* calls exit(0) wherever main is. Inside log_append the frame has been
\* written or has not (elsewhere it has not); inside log_add_to_directory the
\* file has been moved or has not (elsewhere it has not); the call in flight
\* never returns, so nothing is counted.
SignalExit(written, moved) ==
    /\ running
    /\ written => pc = "append"
    /\ moved => pc = "roll"
    /\ running' = FALSE
    /\ exitCause' = "signal"
    /\ wodFile' =
          CASE pc = "append" /\ written ->
                 LogAppendFile(wodFile, g_sensor_telemetry, AppendLength, "ok")
            [] pc = "roll" -> LogAddToDirectory(wodFile, artifacts, moved).file
            [] OTHER -> wodFile
    /\ artifacts' =
          IF pc = "roll" THEN LogAddToDirectory(wodFile, artifacts, moved).done
          ELSE artifacts
    /\ UNCHANGED <<config, send_time_rc, failedRolls, errorLines, now, last_time_checked_wod,
                   last_time_checked_period_to_sample_telem,
                   g_num_of_file_io_errors, g_sensor_telemetry, pc,
                   lastStore, lastPacket, storeAttempts, failedAppends,
                   sampleCount, prevSampleAt, prevStoreAt>>

Next ==
    \/ \E d \in ClockSteps : Poll(d)
    \/ \E ok \in BOOLEAN : AppendReturn(ok)
    \/ \E rollOk \in BOOLEAN : RollReturn(rollOk)
    \/ Sample
    \/ \E rc \in SendResults : SendReturn(rc)
    \/ Govern
    \/ GovernorExit
    \/ \E written \in BOOLEAN, moved \in BOOLEAN : SignalExit(written, moved)

Spec == Init /\ [][Next]_vars

(* ------------------------ the nominal scenario ------------------------ *)

\* The loop as the header configures it, entered at t = 0 with no working
\* file yet.
ScenarioInit ==
    /\ samplePeriod = PERIOD_TO_SAMPLE_TELEM_IN_SECONDS
    /\ storePeriod = PERIOD_TO_STORE_WOD_IN_SECONDS
    /\ appendError = -1
    /\ appendFault = "open_fail"
    /\ g_verbose = FALSE
    /\ now = 0
    /\ loopStart = now
    /\ failedRolls = 0
    /\ errorLines = 0
    /\ send_time_rc = -1
    /\ last_time_checked_wod = now
    /\ last_time_checked_period_to_sample_telem = 0
    /\ g_num_of_file_io_errors = 0
    /\ g_sensor_telemetry = ZeroFrame
    /\ wodFile = EmptyFile
    /\ artifacts = <<>>
    /\ pc = "poll"
    /\ running = TRUE
    /\ exitCause = "none"
    /\ lastStore = NoStore
    /\ lastPacket = NoPacket
    /\ storeAttempts = 0
    /\ failedAppends = 0
    /\ sampleCount = 0
    /\ prevSampleAt = <<>>
    /\ prevStoreAt = <<>>

\* One iteration of the loop per second; every append succeeds (the file
\* stays far below the size that calls for a roll).
ScenarioNext ==
    \/ PollUntil(1, ScenarioEnd)
    \/ AppendReturn(TRUE)
    \/ Sample
    \/ \E rc \in SendResults : SendReturn(rc)
    \/ Govern

ScenarioSpec == ScenarioInit /\ [][ScenarioNext]_vars

(* ------------------------------- claims ------------------------------- *)

\* The steps in which log_append, log_add_to_directory and send_raw_packet
\* return, and the step that is a sample check.
AppendStep == pc = "append" /\ pc' # "append"
RollStep == pc = "roll" /\ pc' = "sample"
SampleStep == pc = "sample" /\ pc' # "sample"
SendStep == pc = "send" /\ pc' = "govern"

\* The file holds whole frames only.
WholeRecords(f) ==
    /\ f.old % FrameSize = 0
    /\ \A i \in 1..Len(f.chunks) : f.chunks[i].bytes = FrameSize

\* C1 (as claimed): an action fires in every iteration in which
\* now - last >= P: once the checks of an iteration are done, less than a
\* sample period has passed since the last sample, and less than a store
\* period since the last store.
C1_FiresWheneverPeriodElapsed ==
    (pc = "govern" /\ samplePeriod > 0) =>
        /\ now - last_time_checked_period_to_sample_telem < samplePeriod
        /\ storePeriod > 0 => now - last_time_checked_wod < storePeriod

\* C2: two sample events are never less than a sample period apart, and two
\* store attempts never less than a store period apart, whatever the clock
\* does between polls.
C2_NoDoubleFire ==
    /\ Len(prevSampleAt) = 2 => prevSampleAt[2] - prevSampleAt[1] >= samplePeriod
    /\ Len(prevStoreAt) = 2 => prevStoreAt[2] - prevStoreAt[1] >= storePeriod

\* C2 witness: two samples and two stores have fired, the samples as close
\* together as the loop lets them be.
C2_Witness ==
    /\ Len(prevSampleAt) = 2 /\ Len(prevStoreAt) = 2
    /\ prevSampleAt[2] - prevSampleAt[1] = samplePeriod + 1

\* C3 (as claimed): the process exits through the governor only with the
\* counter above the threshold, and the loop never starts another iteration
\* once threshold + 1 appends have failed, so there is no further store attempt.
C3_ShutdownAtThresholdPlusOne ==
    /\ exitCause = "governor" => g_num_of_file_io_errors > MAX_NUMBER_FILE_IO_ERRORS
    /\ (running /\ pc = "poll") => failedAppends <= MAX_NUMBER_FILE_IO_ERRORS

\* C4 (as claimed): every failed append adds one to the failure counter and a
\* successful one leaves it: the counter is the number of failed appends.
C4_CounterCountsFailedAppends == g_num_of_file_io_errors = failedAppends

\* C5: no step decreases the failure counter.
C5_CounterNeverDecreases ==
    [][g_num_of_file_io_errors' >= g_num_of_file_io_errors]_vars

\* C5 witness: an append has succeeded after failures were counted.
C5_Witness ==
    /\ g_num_of_file_io_errors >= 2
    /\ lastStore.outcome = "ok"

\* C6 (as claimed): a termination signal never ends the process while an
\* append is in flight.
C6_NoExitDuringAppend == ~(exitCause = "signal" /\ pc = "append")

\* C7: the loop rolls the file exactly when the append of that iteration
\* succeeded and floor(size / 1024) > MAX_WOD_FILE_SIZE_IN_KB; completed files
\* appear only through that roll, one at most.
C7_RollIffSucceededAboveThreshold ==
    [][/\ AppendStep =>
            /\ lastStore'.rolled <=>
                 (/\ lastStore'.outcome = "ok"
                  /\ lastStore'.ret \div BytesPerKB > MAX_WOD_FILE_SIZE_IN_KB)
            /\ pc' = "roll" <=> lastStore'.rolled
       /\ pc' = "roll" => pc = "roll" \/ AppendStep
       /\ artifacts' # artifacts =>
            /\ pc = "roll" /\ lastStore.rolled
            /\ Len(artifacts') = Len(artifacts) + 1
       /\ lastStore' # lastStore => AppendStep \/ RollStep]_vars

\* C7 witness: a successful append that returned 11 KB has been followed by a
\* roll, which produced the one completed file.
C7_Witness ==
    /\ pc = "sample"
    /\ lastStore.rolled /\ lastStore.outcome = "ok"
    /\ lastStore.ret \div BytesPerKB = MAX_WOD_FILE_SIZE_IN_KB + 1
    /\ Len(artifacts) = 1

\* C8 (as claimed): once the file is larger than MAX_WOD_FILE_SIZE_IN_KB * 1024
\* bytes, the next successful append is followed by a roll.
C8_RollOnceAboveThreshold ==
    (lastStore.outcome = "ok"
        /\ lastStore.sizeBefore > MAX_WOD_FILE_SIZE_IN_KB * BytesPerKB)
    => lastStore.rolled

\* C8 (amended): a successful append that returns at least
\* (MAX_WOD_FILE_SIZE_IN_KB + 1) * 1024 bytes is followed by a roll in the same
\* iteration; when the roll succeeds the working file is empty and exactly one
\* new completed file holds what the working file held, the new frame included.
C8_RollAtNextWholeKB ==
    [][/\ (/\ AppendStep
           /\ lastStore'.outcome = "ok"
           /\ lastStore'.ret >= (MAX_WOD_FILE_SIZE_IN_KB + 1) * BytesPerKB)
          => pc' = "roll" /\ lastStore'.rolled
       /\ (RollStep /\ lastStore'.rollOk) =>
             /\ wodFile' = EmptyFile
             /\ artifacts' = Append(artifacts, wodFile)
             /\ FileSize(wodFile) = lastStore.ret
             /\ wodFile.chunks[Len(wodFile.chunks)]
                  = [bytes |-> FrameSize, frame |-> lastStore.frame]]_vars

\* C8 witness: a roll has succeeded: the working file is empty and one
\* completed file holds 11 KB.
C8_Witness ==
    /\ lastStore.rolled /\ lastStore.rollOk
    /\ wodFile = EmptyFile
    /\ Len(artifacts) = 1
    /\ FileSize(artifacts[1]) = (MAX_WOD_FILE_SIZE_IN_KB + 1) * BytesPerKB

C10_SendResultIgnored ==
    [][(SampleStep \/ SendStep) =>
        /\ g_num_of_file_io_errors' = g_num_of_file_io_errors
        /\ running' = running /\ exitCause' = exitCause
        /\ last_time_checked_wod' = last_time_checked_wod]_vars

\* C10 witness: a store attempt is under way after the last send failed.
C10_Witness ==
    /\ lastPacket.rc = 1
    /\ running /\ pc = "append"

\* A step in which a sample event, or a store attempt, fires.
SampleFires == sampleCount' = sampleCount + 1
StoreFires == storeAttempts' = storeAttempts + 1

\* The step counts a failure, or prints it when verbose is set.
Reported ==
    \/ g_num_of_file_io_errors' > g_num_of_file_io_errors
    \/ g_verbose => errorLines' > errorLines

\* C11 (as claimed): every failed append, failed roll and failed send is
\* counted, or printed when verbose is set.
C11_NoErrorDiscarded ==
    [][/\ (AppendStep /\ lastStore'.outcome # "ok") => Reported
       /\ (RollStep /\ failedRolls' > failedRolls) => Reported
       /\ (SendStep /\ lastPacket'.rc # 0) => Reported]_vars

\* C13 (as claimed): each check is switched off by its own period only: no
\* sample with samplePeriod <= 0, no store with storePeriod <= 0, and once the
\* checks of an iteration are done no more than a period has passed since the
\* last sample (samplePeriod > 0) and since the last store (storePeriod > 0),
\* whatever the other period is.
C13_ChecksIndependent ==
    /\ samplePeriod <= 0 => sampleCount = 0
    /\ storePeriod <= 0 => storeAttempts = 0
    /\ (pc = "govern" /\ samplePeriod > 0) =>
           now - last_time_checked_period_to_sample_telem <= samplePeriod
    /\ (pc = "govern" /\ storePeriod > 0) =>
           now - last_time_checked_wod <= storePeriod

\* C13 (amended): no sample with samplePeriod <= 0; no store with
\* storePeriod <= 0 nor with samplePeriod <= 0, the store check being nested in
\* the sample check; a sample with samplePeriod > 0 fires whatever storePeriod
\* is, and a store fires when both periods are positive.
C13_StoreNestedInSample ==
    /\ samplePeriod <= 0 => (sampleCount = 0 /\ storeAttempts = 0)
    /\ storePeriod <= 0 => storeAttempts = 0
    /\ (pc = "govern" /\ samplePeriod > 0) =>
           now - last_time_checked_period_to_sample_telem <= samplePeriod
    /\ (pc = "govern" /\ samplePeriod > 0 /\ storePeriod > 0) =>
           now - last_time_checked_wod <= storePeriod

\* C13 witness: with the sample period off and the store period on, more than
\* a store period has passed and nothing was stored.
C13_Witness ==
    /\ samplePeriod <= 0 /\ storePeriod > 0
    /\ pc = "govern"
    /\ now - last_time_checked_wod > storePeriod
    /\ storeAttempts = 0

(* --------------------------- the time beacon -------------------------- *)

\* The globals as at start-up; tlm_send_time has not been called; `now` is
\* the reading of time(0) it is about to take.
BeaconInit ==
    /\ samplePeriod \in {PERIOD_TO_SAMPLE_TELEM_IN_SECONDS}
    /\ storePeriod \in {PERIOD_TO_STORE_WOD_IN_SECONDS}
    /\ appendError = -1
    /\ appendFault = "open_fail"
    /\ g_verbose = FALSE
    /\ now \in BeaconTimes
    /\ loopStart = 0
    /\ failedRolls = 0
    /\ errorLines = 0
    /\ send_time_rc = -1
    /\ last_time_checked_wod = 0
    /\ last_time_checked_period_to_sample_telem = 0
    /\ g_num_of_file_io_errors = 0
    /\ g_sensor_telemetry = ZeroFrame
    /\ wodFile = EmptyFile
    /\ artifacts = <<>>
    /\ pc = "poll"
    /\ running = TRUE
    /\ exitCause = "none"
    /\ lastStore = NoStore
    /\ lastPacket = NoPacket
    /\ storeAttempts = 0
    /\ failedAppends = 0
    /\ sampleCount = 0
    /\ prevSampleAt = <<>>
    /\ prevStoreAt = <<>>

\* Lines 254-265: tlm_send_time(); send_raw_packet returns rc.
SendTime(rc) ==
    /\ send_time_rc = -1
    /\ lastPacket' = Packet(BROADCAST_CALLSIGN, TIME_CALL, PID_NO_PROTOCOL,
                            Status(now), rc)
    /\ send_time_rc' = lastPacket'.rc
    /\ UNCHANGED <<config, now, last_time_checked_wod,
                   last_time_checked_period_to_sample_telem,
                   g_num_of_file_io_errors, g_sensor_telemetry, wodFile,
                   artifacts, pc, running, exitCause, lastStore, storeAttempts,
                   failedAppends, sampleCount, prevSampleAt, prevStoreAt,
                   failedRolls, errorLines>>

BeaconNext == \E rc \in SendResults : SendTime(rc)

BeaconSpec == BeaconInit /\ [][BeaconNext]_vars

\* The iteration at the scenario's last clock reading is over.
ScenarioOver == now = ScenarioEnd /\ pc = "poll"

\* C12 (as claimed): at t = 600 s the nominal scenario has seen 60 sample
\* events and 10 store events of 32 bytes each, no roll and no failure, and
\* the process is running.
C12_NominalScenario ==
    /\ pc # "roll"
    /\ ScenarioOver =>
          /\ sampleCount = 60
          /\ storeAttempts = 10
          /\ FileSize(wodFile) = 10 * FrameSize
          /\ artifacts = <<>>
          /\ g_num_of_file_io_errors = 0
          /\ running

\* tlm_send_time has been called.
TimeSent == send_time_rc # -1

\* C14: the time beacon carries the four bytes of the time, least significant
\* first (b0 + 256*b1 + 65536*b2 + 16777216*b3 = now mod 2^32), from AMSAT-11
\* to TIME-1 with marker 0xF0, and returns the sender's result.
C14_TimeBeaconLittleEndian ==
    TimeSent =>
        /\ Len(lastPacket.payload) = 4
        /\ \A i \in 1..4 : lastPacket.payload[i] \in 0..255
        /\ lastPacket.payload[1] + 256 * lastPacket.payload[2]
             + 65536 * lastPacket.payload[3]
             + 16777216 * lastPacket.payload[4] = Uint32(now)
        /\ lastPacket.from = "AMSAT-11"
        /\ lastPacket.to = "TIME-1"
        /\ lastPacket.pid = 240
        /\ send_time_rc = lastPacket.rc

C14_Witness ==
    /\ TimeSent
    /\ send_time_rc = 1
    /\ lastPacket.payload = <<1, 255, 0, 101>>

\* C15 (as claimed): when every append fails the loop reaches the shutdown:
\* it never starts another iteration with more than the threshold of store
\* attempts behind it, all failed; the governor ends the process only from a
\* state whose counter exceeds the threshold; once the process has ended there
\* is no further sample, store or roll.
C15_ShutdownReachedAndFinal ==
    [][/\ (running' /\ pc' = "poll" /\ failedAppends' = storeAttempts')
             => storeAttempts' <= MAX_NUMBER_FILE_IO_ERRORS
       /\ (running /\ ~running' /\ exitCause' = "governor")
             => g_num_of_file_io_errors > MAX_NUMBER_FILE_IO_ERRORS
       /\ (~running \/ pc = "exit") =>
             /\ sampleCount' = sampleCount
             /\ storeAttempts' = storeAttempts
             /\ artifacts' = artifacts]_vars

\* C16: the last-sample stamp changes only in the step where the sample fires
\* and the last-store stamp only in the step where the store fires, each to the
\* clock reading of that iteration; a step of an iteration in which no event
\* fires leaves the stamps, the frame, the working file and the counter alone.
C16_StampsChangeOnlyOnEvents ==
    [][/\ last_time_checked_period_to_sample_telem'
              # last_time_checked_period_to_sample_telem
             => /\ SampleStep /\ SampleFires
                /\ last_time_checked_period_to_sample_telem' = now
       /\ last_time_checked_wod' # last_time_checked_wod
             => /\ pc = "poll" /\ StoreFires
                /\ last_time_checked_wod' = now'
       /\ SampleFires => last_time_checked_period_to_sample_telem' = now
       /\ StoreFires => last_time_checked_wod' = now'
       /\ (pc \notin {"append", "roll", "send"} /\ ~SampleFires /\ ~StoreFires)
             => UNCHANGED <<last_time_checked_wod,
                            last_time_checked_period_to_sample_telem,
                            g_sensor_telemetry, wodFile,
                            g_num_of_file_io_errors>>]_vars

\* C16 witness: after a sample and a store, an iteration in which neither was
\* due is over.
C16_Witness ==
    /\ running /\ pc = "poll"
    /\ sampleCount >= 1 /\ storeAttempts >= 1
    /\ now > last_time_checked_period_to_sample_telem
    /\ now > last_time_checked_wod
    /\ last_time_checked_wod # last_time_checked_period_to_sample_telem

\* C17: a sample event stamps the frame with the clock reading of its
\* iteration (as a uint32_t) and sends one packet carrying that frame from
\* AMSAT-11 to TLMP1 with marker 0xF0; no other step writes the frame or
\* sends a packet.
C17_SampleStampsAndSendsFrame ==
    [][/\ (SampleStep /\ SampleFires) =>
             /\ g_sensor_telemetry'.timestamp = Uint32(now)
             /\ pc' = "send"
       /\ SendStep =>
             /\ g_sensor_telemetry.timestamp = Uint32(now)
             /\ lastPacket' = Packet("AMSAT-11", "TLMP1", 240,
                                     g_sensor_telemetry, lastPacket'.rc)
       /\ pc' = "send" => pc = "send" \/ (SampleStep /\ SampleFires)
       /\ g_sensor_telemetry' # g_sensor_telemetry => SampleStep /\ SampleFires
       /\ lastPacket' # lastPacket => SendStep]_vars

\* C17 witness: a second sample event has just sent its frame, after a store
\* and a roll.
C17_Witness ==
    /\ pc = "govern"
    /\ sampleCount >= 2
    /\ last_time_checked_period_to_sample_telem = now
    /\ lastPacket.payload.timestamp = now
    /\ lastPacket.to = "TLMP1"
    /\ storeAttempts >= 1
    /\ artifacts # <<>>

\* A store event has handed a frame to log_append.
Stored == lastStore.outcome # "none"

\* C18 (as claimed): the frame stored is the frame of the most recent sample
\* event: a sample has occurred before every store, the stored frame carries
\* the last-sample stamp, and when the sample and the store fire in the same
\* iteration the frame stored is the one sampled in that iteration.
C18_StoredFrameIsLatestSample ==
    [][/\ AppendStep =>
             /\ lastStore'.frame # ZeroFrame
             /\ lastStore'.frame.timestamp
                  = Uint32(last_time_checked_period_to_sample_telem)
       /\ (SampleStep /\ SampleFires /\ Stored /\ lastStore.at = now) =>
             lastStore.frame = g_sensor_telemetry']_vars

\* C18 (amended): the frame stored is g_sensor_telemetry as it stands when the
\* store fires, before the sample check of that iteration: the frame of the
\* last sample event of an earlier iteration, carrying the last-sample stamp
\* of that moment, or the zero-initialised frame when no sample has occurred;
\* a sample firing in the same iteration replaces the frame after it was stored.
C18_StoredFrameIsFrameBeforeSample ==
    [][/\ AppendStep =>
             /\ lastStore'.frame = g_sensor_telemetry
             /\ lastStore'.frame.timestamp
                  = Uint32(last_time_checked_period_to_sample_telem)
             /\ lastStore'.frame = ZeroFrame <=> sampleCount = 0
       /\ (SampleStep /\ SampleFires /\ Stored /\ lastStore.at = now) =>
             /\ lastStore.frame = g_sensor_telemetry
             /\ lastStore.frame # g_sensor_telemetry'
             /\ lastStore.frame.timestamp < now]_vars

\* C18 witness: a store and a sample have fired in the same iteration, and the
\* frame stored is the one of the sample before.
C18_Witness ==
    /\ pc = "govern" /\ Stored
    /\ lastStore.at = now
    /\ last_time_checked_period_to_sample_telem = now
    /\ Len(prevSampleAt) = 2
    /\ lastStore.frame.timestamp = prevSampleAt[1]
    /\ g_sensor_telemetry.timestamp = now

\* An iteration is over and every append and every roll so far has succeeded.
IterationOverAllSucceeded ==
    /\ running /\ pc = "poll"
    /\ failedAppends = 0 /\ failedRolls = 0

\* C19: with appends that add one frame and rolls that succeed, at the end of
\* every iteration the working file is smaller than
\* (MAX_WOD_FILE_SIZE_IN_KB + 1) * 1024 bytes: it exceeds the threshold by
\* 1023 bytes at most.
C19_FileBelowNextKB ==
    IterationOverAllSucceeded =>
        /\ FileSize(wodFile) < (MAX_WOD_FILE_SIZE_IN_KB + 1) * BytesPerKB
        /\ FileSize(wodFile) - MAX_WOD_FILE_SIZE_IN_KB * BytesPerKB
              <= BytesPerKB - 1

\* C19 witness: two appends have succeeded; the file is above the threshold
\* and has not been rolled.
C19_Witness ==
    /\ IterationOverAllSucceeded
    /\ lastStore.outcome = "ok" /\ ~lastStore.rolled
    /\ FileSize(wodFile) > MAX_WOD_FILE_SIZE_IN_KB * BytesPerKB
    /\ storeAttempts >= 2

\* C20: a failed append is not retried at once: every store attempt stamps
\* the last-store time with the clock reading, and the return of log_append,
\* failed or not, leaves the stamp; two store attempts in a row are a store
\* period apart at least, and the first is a store period after the loop
\* started at least.
C20_FailedAppendNotRetriedAtOnce ==
    [][/\ (pc = "poll" /\ StoreFires) =>
             /\ last_time_checked_wod' = now'
             /\ now' - loopStart >= storePeriod
             /\ Stored => now' - lastStore.at >= storePeriod
       /\ AppendStep =>
             /\ last_time_checked_wod' = last_time_checked_wod
             /\ last_time_checked_wod' = now
             /\ lastStore'.at = now
       /\ Len(prevStoreAt') = 2 =>
             prevStoreAt'[2] - prevStoreAt'[1] >= storePeriod]_vars

\* C20 witness: an append has failed uncounted and the next store attempt is
\* under way, as soon after it as the loop allows.
C20_Witness ==
    /\ pc = "append"
    /\ Stored /\ lastStore.outcome # "ok" /\ ~lastStore.counted
    /\ Len(prevStoreAt) = 2
    /\ prevStoreAt[1] = lastStore.at
    /\ now - lastStore.at = storePeriod + 1
    /\ last_time_checked_wod = now

====
